---------------------------- MODULE Spec2Model ----------------------------
(***************************************************************************)
(* b2sdk/sync/scan_policies.py: RegexSet, convert_dir_regex_to_dir_prefix_ *)
(* regex, IntegerRange and ScanPoliciesManager.                            *)
(*                                                                         *)
(* A string is a sequence of one-character strings.  A regular expression  *)
(* is compiled by re.compile (a parse of the pattern string that can fail) *)
(* and matched by Pattern.match (anchored at index 0, not required to      *)
(* consume the whole string).                                              *)
(***************************************************************************)
EXTENDS Integers, Sequences, FiniteSets, TLC

VARIABLES
    args,      \* the arguments ScanPoliciesManager(...) is called with
    policy,    \* <<>>, or <<self>> once the constructor has returned the object self
    raised,    \* TRUE once the constructor has raised re.error
    call       \* the last should_exclude_* call: its method, argument and return value

vars == <<args, policy, raised, call>>

----------------------------------------------------------------------------
(* Bounds of the model.                                                    *)

\* longest exclude-directory pattern of the directory specification
MaxDirPatLen == 3
\* longest path handed to a query of the directory specification
MaxDirPathLen == 4
\* longest pattern of the other specifications
MaxPatLen == 1
\* most patterns, in total over the three lists, of one constructor call
MaxPatterns == 2
\* longest path handed to a query of the other specifications
MaxPathLen == 3
\* modification times and time bounds range over 0..MaxTime
MaxTime == 3

\* characters of the exclude-directory patterns of the directory specification
DirPatChars == {"p", ".", "$", "|", "\\", "(", ")", "/"}
\* characters of the paths of the directory specification
DirPathChars == {"p", "$", "/"}
\* characters of the patterns of the precedence specification
FilePatChars == {"p", "$"}
\* characters of the patterns of the general specification
CtorPatChars == {"p", "("}
\* characters of the paths of the other specifications
PathChars == {"p", "q", "/"}

Strings(chars, n) == UNION {[1..k -> chars] : k \in 0..n}

----------------------------------------------------------------------------
(* re.compile: the parse of a pattern string (sre_parse), for patterns     *)
(* over literals, '.', '$', '|', '\', '(', ')', '*' and '?'.               *)

\* the ASCII letters of the model's alphabets; neither is a known escape
ASCIILETTERS == {"p", "q"}

ParseError == [err |-> TRUE, pos |-> 0, items |-> <<>>]

Parsed(i, items) == [err |-> FALSE, pos |-> i, items |-> items]

Literal(c) == [op |-> "LITERAL", c |-> c]

Repeat(lazy, min, max, item) ==
    [op |-> IF lazy THEN "MIN_REPEAT" ELSE "MAX_REPEAT",
     min |-> min, max |-> max, p |-> <<item>>]

IsRepeat(item) == item.op \in {"MIN_REPEAT", "MAX_REPEAT"}

RECURSIVE parse_sub(_, _, _)
RECURSIVE parse(_, _, _)

\* sre_parse._parse: a sequence of items up to '|', ')' or the end
parse(s, i, acc) ==
    IF i > Len(s) \/ s[i] \in {"|", ")"} THEN Parsed(i, acc)
    ELSE LET this == s[i] IN
      CASE this = "\\" ->
             IF i = Len(s) THEN ParseError                 \* bad escape (end of pattern)
             ELSE IF s[i+1] \in ASCIILETTERS THEN ParseError   \* bad escape \p
             ELSE parse(s, i + 2, Append(acc, Literal(s[i+1])))
        [] this \in {"*", "?"} ->
             IF acc = <<>> \/ acc[Len(acc)].op = "AT" THEN ParseError   \* nothing to repeat
             ELSE IF IsRepeat(acc[Len(acc)]) THEN ParseError            \* multiple repeat
             ELSE LET lazy == i < Len(s) /\ s[i+1] = "?"
                      rep  == Repeat(lazy, 0, IF this = "?" THEN 1 ELSE -1, acc[Len(acc)])
                  IN  parse(s, IF lazy THEN i + 2 ELSE i + 1,
                            Append(SubSeq(acc, 1, Len(acc) - 1), rep))
        [] this = "." -> parse(s, i + 1, Append(acc, [op |-> "ANY"]))
        [] this = "$" -> parse(s, i + 1, Append(acc, [op |-> "AT", at |-> "AT_END"]))
        [] this = "(" ->
             IF i < Len(s) /\ s[i+1] = "?" THEN ParseError     \* unknown extension
             ELSE LET sub == parse_sub(s, i + 1, <<>>) IN
                  IF sub.err THEN ParseError
                  ELSE IF sub.pos > Len(s) \/ s[sub.pos] # ")" THEN ParseError  \* missing )
                  ELSE parse(s, sub.pos + 1,
                             Append(acc, [op |-> "SUBPATTERN", p |-> sub.items]))
        [] OTHER -> parse(s, i + 1, Append(acc, Literal(this)))

\* sre_parse._parse_sub: alternatives separated by '|'
parse_sub(s, i, alts) ==
    LET one == parse(s, i, <<>>) IN
    IF one.err THEN ParseError
    ELSE IF one.pos <= Len(s) /\ s[one.pos] = "|"
         THEN parse_sub(s, one.pos + 1, Append(alts, one.items))
    ELSE IF alts = <<>> THEN one
    ELSE Parsed(one.pos, <<[op |-> "BRANCH", items |-> Append(alts, one.items)]>>)

\* re.compile(r): ok and the compiled pattern, or not ok (re.error is raised)
compile(r) ==
    LET p == parse_sub(r, 1, <<>>) IN
    IF p.err THEN [ok |-> FALSE, code |-> <<>>]
    ELSE IF p.pos <= Len(r) THEN [ok |-> FALSE, code |-> <<>>]   \* unbalanced parenthesis
    ELSE [ok |-> TRUE, code |-> p.items]

----------------------------------------------------------------------------
(* Pattern.match(s): the set of positions at which a match that started at *)
(* a position of P can end.                                                *)

RECURSIVE MatchSeq(_, _, _)
RECURSIVE MatchItem(_, _, _)
RECURSIVE MatchStar(_, _, _, _)

MatchSeq(items, s, P) ==
    IF items = <<>> \/ P = {} THEN P
    ELSE MatchSeq(Tail(items), s, MatchItem(Head(items), s, P))

MatchStar(items, s, frontier, acc) ==
    LET more == MatchSeq(items, s, frontier) \ acc IN
    IF more = {} THEN acc ELSE MatchStar(items, s, more, acc \cup more)

MatchItem(item, s, P) ==
    CASE item.op = "LITERAL" -> {i + 1 : i \in {j \in P : j < Len(s) /\ s[j+1] = item.c}}
      [] item.op = "ANY" -> {i + 1 : i \in {j \in P : j < Len(s) /\ s[j+1] # "\n"}}
      [] item.op = "AT" ->
           {i \in P : i = Len(s) \/ (i = Len(s) - 1 /\ s[Len(s)] = "\n")}
      [] item.op = "BRANCH" ->
           UNION {MatchSeq(item.items[k], s, P) : k \in DOMAIN item.items}
      [] item.op = "SUBPATTERN" -> MatchSeq(item.p, s, P)
      [] OTHER ->
           IF item.max = 1 THEN P \cup MatchSeq(item.p, s, P)
           ELSE MatchStar(item.p, s, P, P)

\* c.match(s) is not None
match(c, s) == MatchSeq(c, s, {0}) # {}

----------------------------------------------------------------------------
(* RegexSet                                                                *)

\* a RegexSet.__init__ that skips the patterns that do not compile
RegexSet_skipping(regex_iterable) ==
    LET good == SelectSeq(regex_iterable, LAMBDA r : compile(r).ok) IN
    [raised |-> FALSE, _compiled_list |-> [i \in DOMAIN good |-> compile(good[i]).code]]

\* RegexSet.__init__: the compiled list, or raised when a pattern does not compile
RegexSet(regex_iterable) ==
    LET compiled == [i \in DOMAIN regex_iterable |-> compile(regex_iterable[i])] IN
    IF \E i \in DOMAIN compiled : ~compiled[i].ok
    THEN [raised |-> TRUE, _compiled_list |-> <<>>]
    ELSE [raised |-> FALSE,
          _compiled_list |-> [i \in DOMAIN compiled |-> compiled[i].code]]

\* a RegexSet.matches written with all() in place of any()
matches_all(self, s) ==
    \A i \in DOMAIN self._compiled_list : match(self._compiled_list[i], s)

\* RegexSet.matches
matches(self, s) ==
    \E i \in DOMAIN self._compiled_list : match(self._compiled_list[i], s)

----------------------------------------------------------------------------
(* convert_dir_regex_to_dir_prefix_regex                                   *)

endswith(s, c) == Len(s) > 0 /\ s[Len(s)] = c

convert_dir_regex_to_dir_prefix_regex(dir_regex) ==
    IF endswith(dir_regex, "$")
    THEN SubSeq(dir_regex, 1, Len(dir_regex) - 1) \o <<"/">>
    ELSE dir_regex \o <<".", "*", "?", "/">>

\* map(convert_dir_regex_to_dir_prefix_regex, exclude_dir_regexes)
map_convert(exclude_dir_regexes) ==
    [i \in DOMAIN exclude_dir_regexes |->
        convert_dir_regex_to_dir_prefix_regex(exclude_dir_regexes[i])]

----------------------------------------------------------------------------
(* IntegerRange.  An optional integer is <<>> (None) or <<n>>.             *)

NoInt == <<>>
OptInts == {NoInt} \cup {<<n>> : n \in 0..MaxTime}

\* an IntegerRange.__init__ that puts inverted bounds in order
IntegerRange_ordered(begin, end) ==
    IF begin # NoInt /\ end # NoInt /\ begin[1] > end[1]
    THEN [_begin |-> end, _end |-> begin]
    ELSE [_begin |-> begin, _end |-> end]

IntegerRange(begin, end) == [_begin |-> begin, _end |-> end]

\* an IntegerRange.__contains__ with exclusive bounds
contains_exclusive(self, item) ==
    LET ge_begin == IF self._begin # NoInt THEN item > self._begin[1] ELSE TRUE
        le_end   == IF self._end # NoInt THEN item < self._end[1] ELSE TRUE
    IN  ge_begin /\ le_end

\* IntegerRange.__contains__
contains(self, item) ==
    LET ge_begin == IF self._begin # NoInt THEN item >= self._begin[1] ELSE TRUE
        le_end   == IF self._end # NoInt THEN item <= self._end[1] ELSE TRUE
    IN  ge_begin /\ le_end

----------------------------------------------------------------------------
(* ScanPoliciesManager                                                     *)

\* ScanPoliciesManager.__init__: <<self>>, or <<>> when a RegexSet raised
ScanPoliciesManager(a) ==
    LET dir_set  == RegexSet(a.exclude_dir_regexes)
        file_because_of_dir_set ==
            RegexSet(map_convert(a.exclude_dir_regexes))
        file_set == RegexSet(a.exclude_file_regexes)
        include_set == RegexSet(a.include_file_regexes)
    IN  IF dir_set.raised \/ file_because_of_dir_set.raised
           \/ file_set.raised \/ include_set.raised
        THEN <<>>
        ELSE <<[_exclude_dir_set |-> [_compiled_list |-> dir_set._compiled_list],
                _exclude_file_because_of_dir_set |->
                    [_compiled_list |-> file_because_of_dir_set._compiled_list],
                _exclude_file_set |-> [_compiled_list |-> file_set._compiled_list],
                _include_file_set |-> [_compiled_list |-> include_set._compiled_list],
                exclude_all_symlinks |-> a.exclude_all_symlinks,
                _include_mod_time_range |->
                    IntegerRange(a.exclude_modified_before, a.exclude_modified_after)]>>

\* a should_exclude_file in which an include pattern overrides both exclusions
should_exclude_file_include_wins(self, file_path) ==
    /\ \/ matches(self._exclude_file_because_of_dir_set, file_path)
       \/ matches(self._exclude_file_set, file_path)
    /\ ~matches(self._include_file_set, file_path)

\* a should_exclude_file that never consults the include patterns
should_exclude_file_no_include(self, file_path) ==
    \/ matches(self._exclude_file_because_of_dir_set, file_path)
    \/ matches(self._exclude_file_set, file_path)

should_exclude_file(self, file_path) ==
    LET exclude_because_of_dir == matches(self._exclude_file_because_of_dir_set, file_path)
        exclude_because_of_file ==
            /\ matches(self._exclude_file_set, file_path)
            /\ ~matches(self._include_file_set, file_path)
    IN  exclude_because_of_dir \/ exclude_because_of_file

should_exclude_file_version(self, mod_time_millis) ==
    ~contains(self._include_mod_time_range, mod_time_millis)

\* a should_exclude_directory that interprets the symlink flag
should_exclude_directory_symlinks(self, dir_path) ==
    self.exclude_all_symlinks \/ matches(self._exclude_dir_set, dir_path)

should_exclude_directory(self, dir_path) ==
    matches(self._exclude_dir_set, dir_path)

\* the defaults of ScanPoliciesManager.__init__, which DEFAULT_SCAN_MANAGER is built with
DEFAULT_ARGS ==
    [exclude_dir_regexes |-> <<>>, exclude_file_regexes |-> <<>>,
     include_file_regexes |-> <<>>, exclude_all_symlinks |-> FALSE,
     exclude_modified_before |-> NoInt, exclude_modified_after |-> NoInt]

----------------------------------------------------------------------------
(* The state machine: one constructor call, then any sequence of queries.  *)

NoCall == [method |-> "none"]

Construct ==
    /\ policy = <<>> /\ ~raised
    /\ policy' = ScanPoliciesManager(args)
    /\ raised' = (policy' = <<>>)
    /\ UNCHANGED <<args, call>>

\* a should_exclude_file that uses up the include patterns as it reads them
ShouldExcludeFile_consuming(file_path) ==
    /\ policy # <<>>
    /\ call' = [method |-> "should_exclude_file", arg |-> file_path,
                ret |-> should_exclude_file(policy[1], file_path)]
    /\ policy' = <<[policy[1] EXCEPT !._include_file_set._compiled_list = <<>>]>>
    /\ UNCHANGED <<args, raised>>

ShouldExcludeFile(file_path) ==
    /\ policy # <<>>
    /\ call' = [method |-> "should_exclude_file", arg |-> file_path,
                ret |-> should_exclude_file(policy[1], file_path)]
    /\ UNCHANGED <<args, policy, raised>>

ShouldExcludeFileVersion(mod_time_millis) ==
    /\ policy # <<>>
    /\ call' = [method |-> "should_exclude_file_version", arg |-> mod_time_millis,
                ret |-> should_exclude_file_version(policy[1], mod_time_millis)]
    /\ UNCHANGED <<args, policy, raised>>

ShouldExcludeDirectory(dir_path) ==
    /\ policy # <<>>
    /\ call' = [method |-> "should_exclude_directory", arg |-> dir_path,
                ret |-> should_exclude_directory(policy[1], dir_path)]
    /\ UNCHANGED <<args, policy, raised>>

Start(argset) ==
    /\ args \in argset
    /\ policy = <<>>
    /\ raised = FALSE
    /\ call = NoCall

\* the relative paths over chars up to n characters: no empty component, so no
\* leading, trailing or doubled '/'
RelPaths(chars, n) ==
    {s \in Strings(chars, n) :
        /\ s # <<>>
        /\ s[1] # "/" /\ s[Len(s)] # "/"
        /\ \A k \in 1..(Len(s) - 1) : ~(s[k] = "/" /\ s[k+1] = "/")}

Times == 0..MaxTime

Queries(paths) ==
    \/ \E f \in paths : ShouldExcludeFile(f)
    \/ \E t \in Times : ShouldExcludeFileVersion(t)
    \/ \E d \in paths : ShouldExcludeDirectory(d)

(* The directory specification: one exclude-directory pattern, every       *)
(* pattern string over DirPatChars up to MaxDirPatLen.                     *)
DirArgs ==
    {[DEFAULT_ARGS EXCEPT !.exclude_dir_regexes = <<r>>] :
        r \in Strings(DirPatChars, MaxDirPatLen)}

DirPaths == RelPaths(DirPathChars, MaxDirPathLen)

InitDirs == Start(DirArgs)

NextDirs == Construct \/ Queries(DirPaths)

SpecDirs == InitDirs /\ [][NextDirs]_vars

(* The precedence specification: each list is empty or holds one pattern   *)
(* over FilePatChars.                                                      *)
OneOrNone(pats) == {<<>>} \cup {<<r>> : r \in pats}

FileArgs ==
    LET lists == OneOrNone(Strings(FilePatChars, MaxPatLen)) IN
    {[DEFAULT_ARGS EXCEPT !.exclude_dir_regexes = d, !.exclude_file_regexes = e,
                          !.include_file_regexes = i] :
        d \in lists, e \in lists, i \in lists}

Paths == RelPaths(PathChars, MaxPathLen)

InitFiles == Start(FileArgs)

Next == Construct \/ Queries(Paths)

SpecFiles == InitFiles /\ [][Next]_vars

(* The time specification: every pair of optional bounds.                  *)
TimeArgs ==
    {[DEFAULT_ARGS EXCEPT !.exclude_modified_before = b, !.exclude_modified_after = e] :
        b \in OptInts, e \in OptInts}

InitTime == Start(TimeArgs)

SpecTime == InitTime /\ [][Next]_vars

(* The general specification: up to MaxPatterns patterns over CtorPatChars *)
(* dealt over the three lists in every way, and both values of the flag.   *)
Deals(n) ==
    {d \in [1..3 -> 0..n] : d[1] + d[2] + d[3] <= n}

CtorArgs ==
    LET pats == Strings(CtorPatChars, MaxPatLen) IN
    UNION {
      {[DEFAULT_ARGS EXCEPT !.exclude_dir_regexes = d, !.exclude_file_regexes = e,
                            !.include_file_regexes = i, !.exclude_all_symlinks = l] :
          d \in [1..n[1] -> pats], e \in [1..n[2] -> pats], i \in [1..n[3] -> pats],
          l \in BOOLEAN}
      : n \in Deals(MaxPatterns)}

Init == Start(CtorArgs)

Spec == Init /\ [][Next]_vars

----------------------------------------------------------------------------
(* What the claims speak of, computed from the constructor's arguments.    *)

\* s matches (from index 0) one of the pattern strings
AnyPatternMatches(regexes, s) ==
    \E i \in DOMAIN regexes :
        LET c == compile(regexes[i]) IN c.ok /\ match(c.code, s)

\* f is matched by the transformed form of an exclude-directory pattern
UnderExcludedDir(f) ==
    AnyPatternMatches(map_convert(args.exclude_dir_regexes), f)

MatchesExclude(f) == AnyPatternMatches(args.exclude_file_regexes, f)

MatchesInclude(f) == AnyPatternMatches(args.include_file_regexes, f)

\* the directories f lies under: the prefixes of f that end right before a '/' of f
Ancestors(f) == {SubSeq(f, 1, k - 1) : k \in {j \in 1..Len(f) : f[j] = "/"}}

\* a pattern of one of the three lists does not compile
InvalidPattern ==
    \E l \in {args.exclude_dir_regexes, args.exclude_file_regexes, args.include_file_regexes} :
        \E i \in DOMAIN l : ~compile(l[i]).ok

Called(method) == call.method = method

Built == policy # <<>>

----------------------------------------------------------------------------
(* C1. Directory-exclusion dominance: a file path matched by the           *)
(* transformed form of an exclude-directory pattern is excluded by         *)
(* should_exclude_file whatever the exclude-file and include-file patterns *)
(* are; an include pattern matching it does not turn the answer to false.  *)
DirectoryExclusionDominance ==
    (Called("should_exclude_file") /\ UnderExcludedDir(call.arg)) => call.ret = TRUE

\* a file under an excluded directory that an include pattern matches was queried
DirectoryExclusionDominanceWitness ==
    /\ Called("should_exclude_file")
    /\ UnderExcludedDir(call.arg)
    /\ MatchesInclude(call.arg)
    /\ call.ret = TRUE

(* C2. Include-override: for a file path not matched by a transformed      *)
(* exclude-directory pattern, should_exclude_file returns true exactly     *)
(* when the path matches an exclude-file pattern and no include-file       *)
(* pattern.                                                                *)
IncludeOverride ==
    (Called("should_exclude_file") /\ ~UnderExcludedDir(call.arg))
        => (call.ret <=> (MatchesExclude(call.arg) /\ ~MatchesInclude(call.arg)))

\* a file matching both an exclude and an include pattern was queried and retained
IncludeOverrideWitness ==
    /\ Called("should_exclude_file")
    /\ ~UnderExcludedDir(call.arg)
    /\ MatchesExclude(call.arg)
    /\ MatchesInclude(call.arg)
    /\ call.ret = FALSE

(* C3. Pruning is only an optimization: when should_exclude_directory(d)   *)
(* is true, should_exclude_file(d + '/' + rest) is true for every          *)
(* non-empty rest.                                                         *)
PruningIsOnlyAnOptimization ==
    (/\ Called("should_exclude_file")
     /\ \E d \in Ancestors(call.arg) : should_exclude_directory(policy[1], d))
        => call.ret = TRUE

(* C4. No false exclusion of sibling files: with no exclude-file patterns, *)
(* a file that should_exclude_file excludes has an ancestor directory that *)
(* should_exclude_directory excludes.                                      *)
NoFalseExclusionOfSiblings ==
    (/\ Called("should_exclude_file")
     /\ args.exclude_file_regexes = <<>>
     /\ call.ret = TRUE)
        => \E d \in Ancestors(call.arg) : should_exclude_directory(policy[1], d)

(* C5. Modification-time window: should_exclude_file_version(t) is true    *)
(* exactly when a lower bound is present and t is below it, or an upper    *)
(* bound is present and t is above it; both bounds are inclusive.          *)
ModificationTimeWindow ==
    Called("should_exclude_file_version") =>
        LET lower == args.exclude_modified_before
            upper == args.exclude_modified_after
            t == call.arg
        IN  call.ret <=> \/ (lower # NoInt /\ t < lower[1])
                         \/ (upper # NoInt /\ t > upper[1])

\* a time equal to the upper bound of a proper window was queried and retained
ModificationTimeWindowWitness ==
    /\ Called("should_exclude_file_version")
    /\ args.exclude_modified_before # NoInt /\ args.exclude_modified_after # NoInt
    /\ args.exclude_modified_before[1] < args.exclude_modified_after[1]
    /\ call.arg = args.exclude_modified_after[1]
    /\ call.ret = FALSE

(* C6. The empty configuration never excludes anything: with the three     *)
(* pattern lists empty and no time bounds, construction succeeds and every *)
(* query returns false; the default policy's exclude_all_symlinks is false.*)
EmptyConfiguration ==
    /\ args.exclude_dir_regexes = <<>>
    /\ args.exclude_file_regexes = <<>>
    /\ args.include_file_regexes = <<>>
    /\ args.exclude_modified_before = NoInt
    /\ args.exclude_modified_after = NoInt

DefaultNeverExcludes ==
    EmptyConfiguration =>
        /\ ~raised
        /\ ~Called("none") => call.ret = FALSE
        /\ (Built /\ args = DEFAULT_ARGS) => policy[1].exclude_all_symlinks = FALSE

\* the default policy was asked about a file
DefaultNeverExcludesWitness ==
    /\ args = DEFAULT_ARGS
    /\ Built
    /\ Called("should_exclude_file")

(* C7. Fail-fast construction: with an invalid pattern anywhere in a list  *)
(* the constructor raises and there is no policy object, so no query is    *)
(* ever answered; the constructor raises for no other reason; and every    *)
(* query on a policy that exists returns a boolean.                        *)
FailFastConstruction ==
    /\ InvalidPattern => (~Built /\ Called("none"))
    /\ raised => InvalidPattern
    /\ ~Called("none") => (Built /\ call.ret \in BOOLEAN)

\* the constructor raised on a list whose first pattern is valid and second is not
FailFastConstructionWitness ==
    /\ raised
    /\ \E l \in {args.exclude_dir_regexes, args.exclude_file_regexes,
                 args.include_file_regexes} :
          Len(l) = 2 /\ compile(l[1]).ok /\ ~compile(l[2]).ok

(* C8. Inverted time window: with both bounds present and                  *)
(* exclude_modified_before > exclude_modified_after the constructor does   *)
(* not raise and should_exclude_file_version returns true for every time.  *)
InvertedWindow ==
    /\ args.exclude_modified_before # NoInt
    /\ args.exclude_modified_after # NoInt
    /\ args.exclude_modified_before[1] > args.exclude_modified_after[1]

InvertedWindowExcludesAll ==
    InvertedWindow =>
        /\ ~raised
        /\ Called("should_exclude_file_version") => call.ret = TRUE

\* a policy with an inverted window was asked about a time between its bounds
InvertedWindowExcludesAllWitness ==
    /\ InvertedWindow
    /\ Called("should_exclude_file_version")
    /\ call.arg < args.exclude_modified_before[1]
    /\ call.arg > args.exclude_modified_after[1]

(* C9. Read-only after construction: no query changes the policy's pattern *)
(* sets, time window or flag (nor the arguments they were built from), and *)
(* a query repeated after any other returns what it returned before.       *)
ReadOnlyAfterConstruction ==
    [][Built =>
        /\ policy' = policy
        /\ args' = args
        /\ (~Called("none") /\ call'.method = call.method /\ call'.arg = call.arg)
              => call'.ret = call.ret]_vars

\* a policy with include patterns has answered a file query and is as constructed
ReadOnlyAfterConstructionWitness ==
    /\ Built
    /\ args.include_file_regexes # <<>>
    /\ Called("should_exclude_file")
    /\ policy = ScanPoliciesManager(args)

(* C10. The symlink flag is stored but not interpreted: the field reads    *)
(* back the constructor's argument, and the policy that differs only in    *)
(* the flag gives the same answer to every query.                          *)
Answer(self, c) ==
    CASE c.method = "should_exclude_file" -> should_exclude_file(self, c.arg)
      [] c.method = "should_exclude_file_version" -> should_exclude_file_version(self, c.arg)
      [] c.method = "should_exclude_directory" -> should_exclude_directory(self, c.arg)

OtherFlag(self) == [self EXCEPT !.exclude_all_symlinks = ~self.exclude_all_symlinks]

SymlinkFlagNotInterpreted ==
    Built =>
        /\ policy[1].exclude_all_symlinks = args.exclude_all_symlinks
        /\ ~Called("none") => call.ret = Answer(OtherFlag(policy[1]), call)

\* a policy built with exclude_all_symlinks set retained a directory
SymlinkFlagNotInterpretedWitness ==
    /\ Built
    /\ args.exclude_all_symlinks = TRUE
    /\ policy[1].exclude_all_symlinks = TRUE
    /\ Called("should_exclude_directory")
    /\ call.ret = FALSE

============================================================================
